---------------------------- MODULE Spec2Model ----------------------------
(***************************************************************************)
(* Progression & Mastery Engine of networklearn: the Game page controller, *)
(* the LevelGame session, the useGameProgress store, the                   *)
(* useLevelCompletions store, their localStorage entries, the catalog's    *)
(* sections and getBadges.                                                 *)
(***************************************************************************)
EXTENDS Integers, Sequences, FiniteSets, TLC

(***************************************************************************)
(* Bounds of the model.  The catalog of the repository has 6 sections and  *)
(* 65 levels of 6 questions each; the model keeps its shape (contiguous    *)
(* level ids from 1, sections that partition them in order, one badge per  *)
(* section) on a smaller scale.                                            *)
(***************************************************************************)
NumSections == 2
NumOptions == 2
MaxScore == 40
MaxCompletions == 1
MaxLen == 3

(***************************************************************************)
(* Catalog (data/levels.ts)                                                *)
(***************************************************************************)
\* Sizes of the sections, scaled down from 10, 8, 10, 14, 13, 10 (each at least 1).
SectionSizes == <<2, 1, 1, 2, 2, 1>>

\* Badge names of the six sections, in catalog order.
SectionBadges ==
    <<"OSI Master", "TCP/IP Expert", "IP Guru", "Hardware Hero",
      "Protocol Pro", "Security Champion">>

\* The special badge listed by BadgeDisplay for 100% completion.
GrandBadge == "Grand Master"

RECURSIVE SectionStart(_)
\* First level id of section s: the sections list contiguous ranges.
SectionStart(s) == IF s = 1 THEN 1 ELSE SectionStart(s - 1) + SectionSizes[s - 1]

\* sections: the ordered Section list; levels is the ordered list of level ids.
sections ==
    [s \in 1..NumSections |->
        [id |-> s,
         levels |-> [i \in 1..SectionSizes[s] |-> SectionStart(s) + i - 1],
         badge |-> SectionBadges[s]]]

NumLevels == SectionStart(NumSections) + SectionSizes[NumSections] - 1

LevelIds == 1..NumLevels

\* Number of questions of each level.  Level 1 has 6 questions as in the
\* repository; the other levels vary the count so that every small T occurs.
QuestionCounts == <<6, 5, 1, 3, 2, 4>>

\* level.questions.length
totalQuestionsOf(levelId) == QuestionCounts[((levelId - 1) % Len(QuestionCounts)) + 1]

\* Indices of the options of a question (options.length = NumOptions).
Options == 0..(NumOptions - 1)

\* level.questions[index].correctAnswer: a valid index into options.
correctAnswerOf(levelId, index) == (levelId + index) % NumOptions

(***************************************************************************)
(* Array helpers (Array.prototype.includes / every)                        *)
(***************************************************************************)
includes(arr, x) == \E i \in 1..Len(arr) : arr[i] = x

Elems(arr) == {arr[i] : i \in 1..Len(arr)}

NoDuplicates(arr) == \A i, j \in 1..Len(arr) : arr[i] = arr[j] => i = j

(***************************************************************************)
(* State                                                                   *)
(***************************************************************************)
VARIABLES
    view,                  \* Game: 'sections' | 'levels' | 'game'
    selectedSection,       \* Game: section id, Null when none
    selectedLevel,         \* Game: level id, Null when none
    progress,              \* useGameProgress: the progress record
    completions,           \* useLevelCompletions: level id -> count (partial map)
    badgeEffectPending,    \* Game: the badge effect is scheduled to run
    phase,                 \* LevelGame: 'learning' | 'questions'
    currentQuestionIndex,  \* LevelGame
    selectedAnswer,        \* LevelGame: option index, NoAnswer when null
    isAnswered,            \* LevelGame
    correctCount,          \* LevelGame
    showCelebration,       \* LevelGame
    storage,               \* localStorage: key -> stored text
    isLoaded,              \* useGameProgress: initial load is complete
    completionsLoaded,     \* useLevelCompletions: isLoaded
    saveProgressPending,   \* useGameProgress: the save effect is scheduled
    saveCompletionsPending,\* useLevelCompletions: the save effect is scheduled
    crashed,               \* a render has thrown: the page is gone
    lastOutcome,           \* what the last finished session handed to onComplete
    openedWith,            \* the two records as they were when the session was
                           \* opened, until the session hands over its outcome
    probe                  \* last evaluation of a pure accessor on the record

gameVars == <<view, selectedSection, selectedLevel>>
persistVars == <<storage, isLoaded, completionsLoaded, crashed>>
storeVars == <<progress, completions, badgeEffectPending, saveProgressPending,
               saveCompletionsPending, persistVars>>
sessionVars == <<phase, currentQuestionIndex, selectedAnswer, isAnswered,
                 correctCount, showCelebration>>
vars == <<view, selectedSection, selectedLevel, progress, completions,
          badgeEffectPending, phase, currentQuestionIndex, selectedAnswer,
          isAnswered, correctCount, showCelebration, storage, isLoaded,
          completionsLoaded, saveProgressPending, saveCompletionsPending,
          crashed, lastOutcome, openedWith, probe>>

\* null for selectedSection / selectedLevel (ids start at 1; null is falsy)
Null == 0
\* null for selectedAnswer (option indices start at 0)
NoAnswer == -1

NoOutcome == [levelId |-> Null, score |-> 0, passed |-> FALSE, correct |-> 0, total |-> 0]
NoProbe == [op |-> "none"]
\* no session opened, or its outcome handed over
NotOpened == [progress |-> <<>>, completions |-> <<>>]

(***************************************************************************)
(* useGameProgress                                                         *)
(***************************************************************************)
defaultProgress ==
    [completedLevels |-> <<>>, currentLevel |-> 1, totalScore |-> 0, badges |-> <<>>]

Max(a, b) == IF a >= b THEN a ELSE b

\* completeLevel setting currentLevel to levelId + 1 without the Math.max
completeLevelNoMax(prev, levelId, score) ==
    [prev EXCEPT !.completedLevels = IF includes(prev.completedLevels, levelId)
                                     THEN prev.completedLevels
                                     ELSE Append(prev.completedLevels, levelId),
                 !.currentLevel = levelId + 1,
                 !.totalScore = prev.totalScore + score]

\* completeLevel appending the level without the includes test
completeLevelAlwaysAppend(prev, levelId, score) ==
    [prev EXCEPT !.completedLevels = Append(prev.completedLevels, levelId),
                 !.currentLevel = Max(prev.currentLevel, levelId + 1),
                 !.totalScore = prev.totalScore + score]

\* completeLevel's updater: prev => next
completeLevel(prev, levelId, score) ==
    LET newCompleted == IF includes(prev.completedLevels, levelId)
                        THEN prev.completedLevels
                        ELSE Append(prev.completedLevels, levelId)
    IN [prev EXCEPT !.completedLevels = newCompleted,
                    !.currentLevel = Max(prev.currentLevel, levelId + 1),
                    !.totalScore = prev.totalScore + score]

\* addBadge appending the badge without the includes test
addBadgeAlwaysAppend(prev, badge) ==
    [prev EXCEPT !.badges = Append(prev.badges, badge)]

\* addBadge's updater: prev => next
addBadge(prev, badge) ==
    IF includes(prev.badges, badge) THEN prev
    ELSE [prev EXCEPT !.badges = Append(prev.badges, badge)]

\* isLevelUnlocked looking at the level itself instead of its predecessor
isLevelUnlockedOffByOne(levelId) ==
    IF levelId = 1 THEN TRUE ELSE includes(progress.completedLevels, levelId)

\* isLevelUnlocked without the test of the previous level
isLevelUnlockedAllOpen(levelId) == levelId >= 1

isLevelUnlocked(levelId) ==
    IF levelId = 1 THEN TRUE ELSE includes(progress.completedLevels, levelId - 1)

isLevelCompleted(levelId) == includes(progress.completedLevels, levelId)

(***************************************************************************)
(* useLevelCompletions                                                     *)
(***************************************************************************)
\* completions[levelId] || 0
getCompletionCount(levelId) ==
    IF levelId \in DOMAIN completions THEN completions[levelId] ELSE 0

\* Completions counted so far for the levels from l on (the model opens no
\* further session once the sum exceeds MaxCompletions)
RECURSIVE completionsSoFar(_)
completionsSoFar(l) ==
    IF l > NumLevels THEN 0 ELSE getCompletionCount(l) + completionsSoFar(l + 1)

\* incrementCompletion writing 1 instead of adding 1 to the previous count
incrementCompletionOverwrite(prev, levelId) ==
    [l \in (DOMAIN prev) \cup {levelId} |-> IF l = levelId THEN 1 ELSE prev[l]]

\* incrementCompletion's updater: prev => next
incrementCompletion(prev, levelId) ==
    [l \in (DOMAIN prev) \cup {levelId} |->
        IF l = levelId
        THEN (IF levelId \in DOMAIN prev THEN prev[levelId] ELSE 0) + 1
        ELSE prev[l]]

(***************************************************************************)
(* localStorage and JSON.  A stored text is absent, unparsable, the text   *)
(* null, or the text of an object: the list of its members <<name, value>> *)
(* in order.  Property names are strings in the text.                      *)
(***************************************************************************)
\* STORAGE_KEY of useGameProgress and of useLevelCompletions
PROGRESS_STORAGE_KEY == "networklearn_progress"
COMPLETIONS_STORAGE_KEY == "networklearn_completions"

\* localStorage.getItem of a key that holds nothing: null (falsy)
NoItem == [kind |-> "absent"]
\* a text on which JSON.parse throws
Unparsable == [kind |-> "unparsable"]
\* the text null
NullText == [kind |-> "null"]
ObjectText(members) == [kind |-> "object", members |-> members]

\* JavaScript's null as a value in memory
JsNull == [jsnull |-> TRUE]

\* JSON.stringify(progress): the record's properties in insertion order
stringifyProgress(p) ==
    ObjectText(<< <<"completedLevels", p.completedLevels>>,
                  <<"currentLevel", p.currentLevel>>,
                  <<"totalScore", p.totalScore>>,
                  <<"badges", p.badges>> >>)

RECURSIVE countMembersFrom(_, _)
countMembersFrom(l, c) ==
    IF l > NumLevels THEN <<>>
    ELSE (IF l \in DOMAIN c THEN << <<ToString(l), c[l]>> >> ELSE <<>>)
         \o countMembersFrom(l + 1, c)

\* JSON.stringify(completions): integer-like property names in ascending
\* order, written as strings
stringifyCompletions(c) == ObjectText(countMembersFrom(1, c))

\* JSON.parse of a parsable text: null, or the object holding the text's
\* members (a repeated name keeps its last value)
JSONparse(text) ==
    IF text.kind = "null" THEN JsNull
    ELSE LET m == text.members
         IN [n \in {m[i][1] : i \in 1..Len(m)} |->
                m[CHOOSE i \in 1..Len(m) :
                      m[i][1] = n /\ \A j \in (i + 1)..Len(m) : m[j][1] # n][2]]

\* A parsed object read as Record<number, number>: completions[levelId] is
\* the property named String(levelId)
countsOf(obj) ==
    [l \in {k \in LevelIds : ToString(k) \in DOMAIN obj} |-> obj[ToString(l)]]

\* The progress state after the load effect: untouched (the initial
\* defaults) without an item, JSON.parse(stored) as it comes, the defaults
\* when JSON.parse throws.
loadProgress(stored) ==
    IF stored.kind = "absent" THEN defaultProgress
    ELSE IF stored.kind = "unparsable" THEN defaultProgress
    ELSE JSONparse(stored)

\* The completions state after the load effect, likewise ({} as fallback).
loadCompletions(stored) ==
    IF stored.kind = "absent" THEN << >>
    ELSE IF stored.kind = "unparsable" THEN << >>
    ELSE countsOf(JSONparse(stored))

\* Rendering the Game page throws a TypeError when the progress state has no
\* completedLevels or badges array (progress.completedLevels.length, ...).
renderThrows(p) == ~({"completedLevels", "badges"} \subseteq DOMAIN p)

(***************************************************************************)
(* data/levels.ts getBadges and Game.isSectionUnlocked                     *)
(***************************************************************************)
every(arr, completedLevels) == \A i \in 1..Len(arr) : includes(completedLevels, arr[i])

RECURSIVE getBadgesFrom(_, _)
getBadgesFrom(s, completedLevels) ==
    IF s > NumSections THEN <<>>
    ELSE (IF every(sections[s].levels, completedLevels)
          THEN <<sections[s].badge>> ELSE <<>>)
         \o getBadgesFrom(s + 1, completedLevels)

\* getBadges with some() in place of every()
RECURSIVE getBadgesSomeFrom(_, _)
getBadgesSomeFrom(s, completedLevels) ==
    IF s > NumSections THEN <<>>
    ELSE (IF \E i \in 1..Len(sections[s].levels) :
                 includes(completedLevels, sections[s].levels[i])
          THEN <<sections[s].badge>> ELSE <<>>)
         \o getBadgesSomeFrom(s + 1, completedLevels)

getBadgesSome(completedLevels) == getBadgesSomeFrom(1, completedLevels)

\* earnedBadges, in section order
getBadges(completedLevels) == getBadgesFrom(1, completedLevels)

\* isSectionUnlocked with some() in place of every()
isSectionUnlockedSome(sectionId) ==
    IF sectionId = 1 THEN TRUE
    ELSE IF (sectionId - 1) \notin 1..NumSections THEN FALSE
    ELSE \E i \in 1..Len(sections[sectionId - 1].levels) :
            includes(progress.completedLevels, sections[sectionId - 1].levels[i])

isSectionUnlocked(sectionId) ==
    IF sectionId = 1 THEN TRUE
    ELSE IF (sectionId - 1) \notin 1..NumSections THEN FALSE
    ELSE every(sections[sectionId - 1].levels, progress.completedLevels)


(***************************************************************************)
(* Initial state: first run, nothing persisted; the Game page has mounted  *)
(* on the sections view (showing its loading screen) and its first effects *)
(* pass is due.                                                            *)
(***************************************************************************)
SessionInit ==
    /\ phase = "learning"
    /\ currentQuestionIndex = 0
    /\ selectedAnswer = NoAnswer
    /\ isAnswered = FALSE
    /\ correctCount = 0
    /\ showCelebration = FALSE

Init ==
    /\ view = "sections"
    /\ selectedSection = Null
    /\ selectedLevel = Null
    /\ progress = defaultProgress
    /\ completions = << >>
    /\ badgeEffectPending = FALSE
    /\ storage = [k \in {PROGRESS_STORAGE_KEY, COMPLETIONS_STORAGE_KEY} |-> NoItem]
    /\ isLoaded = FALSE
    /\ completionsLoaded = FALSE
    /\ saveProgressPending = FALSE
    /\ saveCompletionsPending = FALSE
    /\ crashed = FALSE
    /\ SessionInit
    /\ lastOutcome = NoOutcome
    /\ openedWith = NotOpened
    /\ probe = NoProbe

(***************************************************************************)
(* LevelGame: derived state                                                *)
(***************************************************************************)
totalQuestions == totalQuestionsOf(selectedLevel)

isCorrect == selectedAnswer = correctAnswerOf(selectedLevel, currentQuestionIndex)

isLastQuestion == currentQuestionIndex = totalQuestions - 1

\* correctCount + (isCorrect ? 1 : 0)
finalCorrectCount == correctCount + (IF isCorrect THEN 1 ELSE 0)

\* Math.ceil(n / 2)
CeilHalf(n) == (n + 1) \div 2

\* passedLevel with > in place of >=
passedLevelStrict(final, total) == final > CeilHalf(total)

\* finalCorrectCount >= Math.ceil(totalQuestions / 2)
passedLevel(final, total) == final >= CeilHalf(total)

\* The LevelGame component is mounted and shows its learning or question screen.
InSession == view = "game" /\ selectedLevel # Null

\* A new LevelGame instance: every useState at its initial value.
SessionReset ==
    /\ phase' = "learning"
    /\ currentQuestionIndex' = 0
    /\ selectedAnswer' = NoAnswer
    /\ isAnswered' = FALSE
    /\ correctCount' = 0
    /\ showCelebration' = FALSE

(***************************************************************************)
(* Game page                                                               *)
(***************************************************************************)
\* The badge effect: getBadges(progress.completedLevels), addBadge for each
\* earned badge not yet held, in order.
RECURSIVE addBadges(_, _)
addBadges(prev, earned) ==
    IF earned = <<>> THEN prev
    ELSE addBadges(addBadge(prev, Head(earned)), Tail(earned))

\* The first effects pass with save effects that do not test isLoaded: they
\* write the initial records of the mounting render.
MountEffectsSaveUnguarded ==
    /\ ~isLoaded /\ ~crashed
    /\ LET stored == storage[PROGRESS_STORAGE_KEY]
           loaded == loadProgress(stored)
       IN /\ progress' = addBadges(loaded, getBadges(progress.completedLevels))
          /\ crashed' = renderThrows(loaded)
          /\ badgeEffectPending' =
                (~renderThrows(loaded) /\ stored.kind \notin {"absent", "unparsable"})
          /\ saveProgressPending' = ~renderThrows(loaded)
          /\ saveCompletionsPending' = ~renderThrows(loaded)
    /\ completions' = loadCompletions(storage[COMPLETIONS_STORAGE_KEY])
    /\ storage' = (PROGRESS_STORAGE_KEY :> stringifyProgress(progress))
                     @@ (COMPLETIONS_STORAGE_KEY :> stringifyCompletions(completions))
    /\ isLoaded' = TRUE
    /\ completionsLoaded' = TRUE
    /\ UNCHANGED <<gameVars, sessionVars, lastOutcome, openedWith, probe>>

\* The first effects pass after mount, in hook order: both load effects run;
\* both save effects see isLoaded = false and write nothing; the badge effect
\* sees the initial record, its addBadge updaters queue behind the loaded
\* value.  The next render shows the page, or throws.
MountEffects ==
    /\ ~isLoaded /\ ~crashed
    /\ LET stored == storage[PROGRESS_STORAGE_KEY]
           loaded == loadProgress(stored)
       IN /\ progress' = addBadges(loaded, getBadges(progress.completedLevels))
          /\ crashed' = renderThrows(loaded)
          /\ badgeEffectPending' =
                (~renderThrows(loaded) /\ stored.kind \notin {"absent", "unparsable"})
          /\ saveProgressPending' = ~renderThrows(loaded)
          /\ saveCompletionsPending' = ~renderThrows(loaded)
    /\ completions' = loadCompletions(storage[COMPLETIONS_STORAGE_KEY])
    /\ isLoaded' = TRUE
    /\ completionsLoaded' = TRUE
    /\ UNCHANGED <<gameVars, sessionVars, storage, lastOutcome,
                   openedWith, probe>>

\* useGameProgress's save effect (dependencies progress, isLoaded)
SaveProgressEffect ==
    /\ ~crashed
    /\ saveProgressPending
    /\ storage' = IF isLoaded
                  THEN [storage EXCEPT
                           ![PROGRESS_STORAGE_KEY] = stringifyProgress(progress)]
                  ELSE storage
    /\ saveProgressPending' = FALSE
    /\ UNCHANGED <<gameVars, sessionVars, progress, completions,
                   badgeEffectPending, saveCompletionsPending, isLoaded,
                   completionsLoaded, crashed, lastOutcome,
                   openedWith, probe>>

\* useLevelCompletions's save effect writing under useGameProgress's key
SaveCompletionsEffectWrongKey ==
    /\ ~crashed
    /\ ~saveProgressPending
    /\ saveCompletionsPending
    /\ storage' = IF completionsLoaded
                  THEN [storage EXCEPT
                           ![PROGRESS_STORAGE_KEY] = stringifyCompletions(completions)]
                  ELSE storage
    /\ saveCompletionsPending' = FALSE
    /\ UNCHANGED <<gameVars, sessionVars, progress, completions,
                   badgeEffectPending, saveProgressPending, isLoaded,
                   completionsLoaded, crashed, lastOutcome,
                   openedWith, probe>>

\* useLevelCompletions's save effect (dependencies completions, isLoaded);
\* it runs after useGameProgress's effects of the same pass.
SaveCompletionsEffect ==
    /\ ~crashed
    /\ ~saveProgressPending
    /\ saveCompletionsPending
    /\ storage' = IF completionsLoaded
                  THEN [storage EXCEPT
                           ![COMPLETIONS_STORAGE_KEY] = stringifyCompletions(completions)]
                  ELSE storage
    /\ saveCompletionsPending' = FALSE
    /\ UNCHANGED <<gameVars, sessionVars, progress, completions,
                   badgeEffectPending, saveProgressPending, isLoaded,
                   completionsLoaded, crashed, lastOutcome,
                   openedWith, probe>>

\* The badge effect (dependency progress.completedLevels); it runs after the
\* hooks' effects of the same pass.
BadgeEffect ==
    /\ ~crashed
    /\ ~saveProgressPending /\ ~saveCompletionsPending
    /\ badgeEffectPending
    /\ progress' = addBadges(progress, getBadges(progress.completedLevels))
    /\ badgeEffectPending' = FALSE
    /\ saveProgressPending' = (progress' # progress)
    /\ UNCHANGED <<gameVars, completions, saveCompletionsPending, persistVars,
                   sessionVars, lastOutcome,
                   openedWith, probe>>

\* The page is shown (isLoaded) and every scheduled effect has run: the next
\* learner event is handled.
Ready ==
    /\ isLoaded /\ ~crashed
    /\ ~saveProgressPending /\ ~saveCompletionsPending /\ ~badgeEffectPending

\* SectionCard click (disabled while locked) -> handleSectionClick
handleSectionClick(sectionId) ==
    /\ Ready
    /\ view = "sections"
    /\ isSectionUnlocked(sectionId)
    /\ selectedSection' = sectionId
    /\ view' = "levels"
    /\ UNCHANGED <<selectedLevel, storeVars, sessionVars, lastOutcome,
                   openedWith, probe>>

\* handleLevelClick reached without LevelCard's isUnlocked test
handleLevelClickNoLockTest(levelId) ==
    /\ Ready
    /\ view = "levels"
    /\ selectedSection # Null
    /\ includes(sections[selectedSection].levels, levelId)
    /\ progress.totalScore <= MaxScore
    /\ completionsSoFar(1) <= MaxCompletions
    /\ selectedLevel' = levelId
    /\ view' = "game"
    /\ SessionReset
    /\ lastOutcome' = NoOutcome
    /\ openedWith' = [progress |-> progress, completions |-> completions]
    /\ UNCHANGED <<selectedSection, storeVars, probe>>

\* LevelCard.handleClick (only if unlocked) -> handleLevelClick
handleLevelClick(levelId) ==
    /\ Ready
    /\ view = "levels"
    /\ selectedSection # Null
    /\ includes(sections[selectedSection].levels, levelId)
    /\ isLevelUnlocked(levelId)
    /\ progress.totalScore <= MaxScore
    /\ completionsSoFar(1) <= MaxCompletions
    /\ selectedLevel' = levelId
    /\ view' = "game"
    /\ SessionReset
    /\ lastOutcome' = NoOutcome
    /\ openedWith' = [progress |-> progress, completions |-> completions]
    /\ UNCHANGED <<selectedSection, storeVars, probe>>

\* handleBack: from the game to the levels, from the levels to the sections.
\* The celebration screen renders no back button.
handleBack ==
    /\ Ready
    /\ \/ /\ view = "game"
          /\ ~showCelebration
          /\ view' = "levels"
          /\ selectedLevel' = Null
          /\ SessionReset
          /\ UNCHANGED selectedSection
       \/ /\ view = "levels"
          /\ view' = "sections"
          /\ selectedSection' = Null
          /\ UNCHANGED <<selectedLevel, sessionVars>>
    /\ UNCHANGED <<storeVars, lastOutcome,
                   openedWith, probe>>

\* handleLevelComplete(score), called through LevelGame's onComplete; the
\* session's verdict and counts are recorded with the score it handed over.
handleLevelComplete(score, passed) ==
    /\ progress' = IF selectedLevel # Null
                   THEN completeLevel(progress, selectedLevel, score)
                   ELSE progress
    /\ badgeEffectPending' =
          (badgeEffectPending
             \/ progress'.completedLevels # progress.completedLevels)
    /\ saveProgressPending' = (saveProgressPending \/ selectedLevel # Null)
    /\ lastOutcome' = [levelId |-> selectedLevel, score |-> score,
                       passed |-> passed, correct |-> correctCount,
                       total |-> totalQuestions]
    /\ view' = "levels"
    /\ selectedLevel' = Null
    /\ SessionReset
    /\ openedWith' = NotOpened
    /\ UNCHANGED <<selectedSection, completions, saveCompletionsPending,
                   persistVars, probe>>

(***************************************************************************)
(* LevelGame handlers                                                      *)
(***************************************************************************)
handleStartQuestions ==
    /\ Ready
    /\ InSession /\ ~showCelebration
    /\ phase = "learning"
    /\ phase' = "questions"
    /\ UNCHANGED <<gameVars, storeVars, currentQuestionIndex, selectedAnswer,
                   isAnswered, correctCount, showCelebration, lastOutcome,
                   openedWith, probe>>

\* handleSelectAnswer without the isAnswered test
handleSelectAnswerAfterGrading(index) ==
    /\ Ready
    /\ InSession /\ ~showCelebration
    /\ phase = "questions"
    /\ selectedAnswer' = index
    /\ UNCHANGED <<gameVars, storeVars, phase, currentQuestionIndex, isAnswered,
                   correctCount, showCelebration, lastOutcome,
                   openedWith, probe>>

\* Option buttons are disabled once the question is answered.
handleSelectAnswer(index) ==
    /\ Ready
    /\ InSession /\ ~showCelebration
    /\ phase = "questions"
    /\ ~isAnswered
    /\ selectedAnswer' = index
    /\ UNCHANGED <<gameVars, storeVars, phase, currentQuestionIndex, isAnswered,
                   correctCount, showCelebration, lastOutcome,
                   openedWith, probe>>

\* handleSubmit without the selectedAnswer === null test
handleSubmitNoSelectionTest ==
    /\ Ready
    /\ InSession /\ ~showCelebration
    /\ phase = "questions"
    /\ ~isAnswered
    /\ isAnswered' = TRUE
    /\ correctCount' = IF isCorrect THEN correctCount + 1 ELSE correctCount
    /\ UNCHANGED <<gameVars, storeVars, phase, currentQuestionIndex,
                   selectedAnswer, showCelebration, lastOutcome,
                   openedWith, probe>>

\* handleSubmit reachable again on a question that is already answered
handleSubmitAgain ==
    /\ Ready
    /\ InSession /\ ~showCelebration
    /\ phase = "questions"
    /\ selectedAnswer # NoAnswer
    /\ isAnswered' = TRUE
    /\ correctCount' = IF isCorrect THEN correctCount + 1 ELSE correctCount
    /\ UNCHANGED <<gameVars, storeVars, phase, currentQuestionIndex,
                   selectedAnswer, showCelebration, lastOutcome,
                   openedWith, probe>>

\* The action button calls handleSubmit while the question is unanswered.
handleSubmit ==
    /\ Ready
    /\ InSession /\ ~showCelebration
    /\ phase = "questions"
    /\ ~isAnswered
    /\ selectedAnswer # NoAnswer
    /\ isAnswered' = TRUE
    /\ correctCount' = IF isCorrect THEN correctCount + 1 ELSE correctCount
    /\ UNCHANGED <<gameVars, storeVars, phase, currentQuestionIndex,
                   selectedAnswer, showCelebration, lastOutcome,
                   openedWith, probe>>

\* handleNextQuestion returning a failed session to the levels without
\* calling onComplete
handleNextQuestionFailDiscards ==
    /\ Ready
    /\ InSession /\ ~showCelebration
    /\ phase = "questions"
    /\ isAnswered
    /\ \/ /\ isLastQuestion
          /\ passedLevel(finalCorrectCount, totalQuestions)
          /\ completions' = incrementCompletion(completions, selectedLevel)
          /\ saveCompletionsPending' = TRUE
          /\ showCelebration' = TRUE
          /\ UNCHANGED <<gameVars, progress, badgeEffectPending,
                         saveProgressPending, persistVars, phase,
                         currentQuestionIndex, selectedAnswer, isAnswered,
                         correctCount, lastOutcome, openedWith, probe>>
       \/ /\ isLastQuestion
          /\ ~passedLevel(finalCorrectCount, totalQuestions)
          /\ lastOutcome' = [levelId |-> selectedLevel,
                             score |-> finalCorrectCount * 15,
                             passed |-> FALSE, correct |-> correctCount,
                             total |-> totalQuestions]
          /\ view' = "levels"
          /\ selectedLevel' = Null
          /\ SessionReset
          /\ openedWith' = NotOpened
          /\ UNCHANGED <<selectedSection, storeVars, probe>>
       \/ /\ ~isLastQuestion
          /\ currentQuestionIndex' = currentQuestionIndex + 1
          /\ selectedAnswer' = NoAnswer
          /\ isAnswered' = FALSE
          /\ UNCHANGED <<gameVars, storeVars, phase, correctCount,
                         showCelebration, lastOutcome, openedWith, probe>>

\* handleNextQuestion moving on to the next question without clearing the
\* selection and the grading
handleNextQuestionKeepsGrading ==
    /\ Ready
    /\ InSession /\ ~showCelebration
    /\ phase = "questions"
    /\ isAnswered
    /\ \/ /\ isLastQuestion
          /\ passedLevel(finalCorrectCount, totalQuestions)
          /\ completions' = incrementCompletion(completions, selectedLevel)
          /\ saveCompletionsPending' = TRUE
          /\ showCelebration' = TRUE
          /\ UNCHANGED <<gameVars, progress, badgeEffectPending,
                         saveProgressPending, persistVars, phase,
                         currentQuestionIndex, selectedAnswer, isAnswered,
                         correctCount, lastOutcome, openedWith, probe>>
       \/ /\ isLastQuestion
          /\ ~passedLevel(finalCorrectCount, totalQuestions)
          /\ handleLevelComplete(finalCorrectCount * 15, FALSE)
       \/ /\ ~isLastQuestion
          /\ currentQuestionIndex' = currentQuestionIndex + 1
          /\ UNCHANGED <<gameVars, storeVars, phase, selectedAnswer,
                         isAnswered, correctCount, showCelebration,
                         lastOutcome, openedWith, probe>>

\* handleNextQuestion showing the celebration without calling onCorrectAnswer
handleNextQuestionPassUncounted ==
    /\ Ready
    /\ InSession /\ ~showCelebration
    /\ phase = "questions"
    /\ isAnswered
    /\ \/ /\ isLastQuestion
          /\ passedLevel(finalCorrectCount, totalQuestions)
          /\ showCelebration' = TRUE
          /\ UNCHANGED <<gameVars, storeVars, phase, currentQuestionIndex,
                         selectedAnswer, isAnswered, correctCount,
                         lastOutcome, openedWith, probe>>
       \/ /\ isLastQuestion
          /\ ~passedLevel(finalCorrectCount, totalQuestions)
          /\ handleLevelComplete(finalCorrectCount * 15, FALSE)
       \/ /\ ~isLastQuestion
          /\ currentQuestionIndex' = currentQuestionIndex + 1
          /\ selectedAnswer' = NoAnswer
          /\ isAnswered' = FALSE
          /\ UNCHANGED <<gameVars, storeVars, phase, correctCount,
                         showCelebration, lastOutcome, openedWith, probe>>

\* The action button calls handleNextQuestion once the question is answered.
handleNextQuestion ==
    /\ Ready
    /\ InSession /\ ~showCelebration
    /\ phase = "questions"
    /\ isAnswered
    /\ \/ /\ isLastQuestion
          /\ passedLevel(finalCorrectCount, totalQuestions)
          /\ completions' = incrementCompletion(completions, selectedLevel)
          /\ saveCompletionsPending' = TRUE
          /\ showCelebration' = TRUE
          /\ UNCHANGED <<gameVars, progress, badgeEffectPending,
                         saveProgressPending, persistVars, phase,
                         currentQuestionIndex, selectedAnswer, isAnswered,
                         correctCount, lastOutcome,
                   openedWith, probe>>
       \/ /\ isLastQuestion
          /\ ~passedLevel(finalCorrectCount, totalQuestions)
          /\ handleLevelComplete(finalCorrectCount * 15, FALSE)
       \/ /\ ~isLastQuestion
          /\ currentQuestionIndex' = currentQuestionIndex + 1
          /\ selectedAnswer' = NoAnswer
          /\ isAnswered' = FALSE
          /\ UNCHANGED <<gameVars, storeVars, phase, correctCount,
                         showCelebration, lastOutcome,
                   openedWith, probe>>

\* The celebration screen's Continue button.
handleComplete ==
    /\ Ready
    /\ InSession /\ showCelebration
    /\ handleLevelComplete(finalCorrectCount * 20, TRUE)

\* resetProgress restoring the defaults but keeping the badges
resetProgressKeepBadges ==
    /\ Ready
    /\ view # "game"
    /\ progress' = [defaultProgress EXCEPT !.badges = progress.badges]
    /\ badgeEffectPending' = (progress.completedLevels # <<>>)
    /\ saveProgressPending' = (progress # progress')
    /\ UNCHANGED <<gameVars, completions, saveCompletionsPending, persistVars,
                   sessionVars, lastOutcome,
                   openedWith, probe>>

\* resetProgress is exported by the hook; the Game page is its only possible
\* caller, outside a level session.
resetProgress ==
    /\ Ready
    /\ view # "game"
    /\ progress' = defaultProgress
    /\ badgeEffectPending' = (progress.completedLevels # <<>>)
    /\ saveProgressPending' = (progress # defaultProgress)
    /\ UNCHANGED <<gameVars, completions, saveCompletionsPending, persistVars,
                   sessionVars, lastOutcome,
                   openedWith, probe>>

LearnerNext ==
    \/ \E s \in 1..NumSections : handleSectionClick(s)
    \/ \E l \in LevelIds : handleLevelClick(l)
    \/ handleBack
    \/ handleStartQuestions
    \/ \E i \in Options : handleSelectAnswer(i)
    \/ handleSubmit
    \/ handleNextQuestion
    \/ handleComplete

EffectNext ==
    \/ MountEffects
    \/ SaveProgressEffect
    \/ SaveCompletionsEffect
    \/ BadgeEffect

Next ==
    \/ EffectNext
    \/ LearnerNext
    \/ resetProgress

Spec == Init /\ [][Next]_vars


(***************************************************************************)
(* First play-through: the same handlers, a level being opened only while  *)
(* both stores still hold their empty defaults.                            *)
(***************************************************************************)
FirstSessionNext ==
    \/ EffectNext
    \/ \E s \in 1..NumSections : handleSectionClick(s)
    \/ \E l \in LevelIds :
          /\ progress = defaultProgress
          /\ completions = << >>
          /\ handleLevelClick(l)
    \/ handleBack
    \/ handleStartQuestions
    \/ \E i \in Options : handleSelectAnswer(i)
    \/ handleSubmit
    \/ handleNextQuestion
    \/ handleComplete

SpecFirstSession == Init /\ [][FirstSessionNext]_vars

(***************************************************************************)
(* Restarts: the page is reloaded (or left and opened again) and starts    *)
(* from whatever localStorage holds; the first start may find any text     *)
(* under either key.                                                       *)
(***************************************************************************)
\* A record an earlier run has saved
SampleProgress ==
    [completedLevels |-> <<1, 2>>, currentLevel |-> 3, totalScore |-> 35,
     badges |-> <<SectionBadges[1]>>]

\* Texts the progress key may hold at startup: nothing, unparsable text,
\* null, {}, a saved record
StoredProgressTexts ==
    {NoItem, Unparsable, NullText, ObjectText(<<>>), stringifyProgress(SampleProgress)}

\* Texts the completions key may hold at startup: nothing, unparsable text,
\* saved counts, an object whose count is no count ({"1": -1})
StoredCompletionsTexts ==
    {NoItem, Unparsable, ObjectText(<< <<"1", 1>> >>), ObjectText(<< <<"1", -1>> >>)}

PersistInit ==
    /\ view = "sections"
    /\ selectedSection = Null
    /\ selectedLevel = Null
    /\ progress = defaultProgress
    /\ completions = << >>
    /\ badgeEffectPending = FALSE
    /\ \E p \in StoredProgressTexts, c \in StoredCompletionsTexts :
          storage = (PROGRESS_STORAGE_KEY :> p) @@ (COMPLETIONS_STORAGE_KEY :> c)
    /\ isLoaded = FALSE
    /\ completionsLoaded = FALSE
    /\ saveProgressPending = FALSE
    /\ saveCompletionsPending = FALSE
    /\ crashed = FALSE
    /\ SessionInit
    /\ lastOutcome = NoOutcome
    /\ openedWith = NotOpened
    /\ probe = NoProbe

\* The page is reloaded at a quiescent point (or after a crash): every
\* useState starts again from its initial value, localStorage stays.
Restart ==
    /\ Ready \/ crashed
    /\ view' = "sections"
    /\ selectedSection' = Null
    /\ selectedLevel' = Null
    /\ progress' = defaultProgress
    /\ completions' = << >>
    /\ badgeEffectPending' = FALSE
    /\ isLoaded' = FALSE
    /\ completionsLoaded' = FALSE
    /\ saveProgressPending' = FALSE
    /\ saveCompletionsPending' = FALSE
    /\ crashed' = FALSE
    /\ SessionReset
    /\ lastOutcome' = NoOutcome
    /\ UNCHANGED <<storage, openedWith, probe>>

PersistNext ==
    \/ EffectNext
    \/ LearnerNext
    \/ resetProgress
    \/ Restart

SpecPersist == PersistInit /\ [][PersistNext]_vars

(***************************************************************************)
(* Play from the empty defaults with page reloads and without             *)
(* resetProgress.                                                          *)
(***************************************************************************)
ReloadNext ==
    \/ EffectNext
    \/ LearnerNext
    \/ Restart

SpecReload == Init /\ [][ReloadNext]_vars

(***************************************************************************)
(* React runs every scheduled effect: a pending effect is not postponed    *)
(* forever.                                                                *)
(***************************************************************************)
SpecLive ==
    /\ Spec
    /\ WF_vars(MountEffects)
    /\ WF_vars(SaveProgressEffect)
    /\ WF_vars(SaveCompletionsEffect)
    /\ WF_vars(BadgeEffect)

(***************************************************************************)
(* The store's accessors and updaters applied to arbitrary well-formed     *)
(* progress records (as a stored record may hold any set of levels).       *)
(***************************************************************************)
\* Duplicate-free lists of level ids of length n
RECURSIVE LevelLists(_)
LevelLists(n) ==
    IF n = 0 THEN {<<>>}
    ELSE {Append(a, l) : a \in {b \in LevelLists(n - 1) : Len(b) = n - 1},
                         l \in LevelIds}
         \cup LevelLists(n - 1)

ProgressRecords ==
    {[completedLevels |-> c, currentLevel |-> k, totalScore |-> t, badges |-> b] :
        c \in {a \in LevelLists(MaxLen) : NoDuplicates(a)},
        k \in 1..(NumLevels + 1),
        t \in {0, 35},
        b \in {<<>>, <<SectionBadges[1]>>}}

\* Score deltas a session can hand over (0, a x15 score, a x20 score)
ScoreDeltas == {0, 15, 20}

PureInit ==
    /\ view = "sections"
    /\ selectedSection = Null
    /\ selectedLevel = Null
    /\ progress \in ProgressRecords
    /\ completions = << >>
    /\ badgeEffectPending = FALSE
    /\ storage = [k \in {PROGRESS_STORAGE_KEY, COMPLETIONS_STORAGE_KEY} |-> NoItem]
    /\ isLoaded = TRUE
    /\ completionsLoaded = TRUE
    /\ saveProgressPending = FALSE
    /\ saveCompletionsPending = FALSE
    /\ crashed = FALSE
    /\ SessionInit
    /\ lastOutcome = NoOutcome
    /\ openedWith = NotOpened
    /\ probe = NoProbe

otherVars == <<gameVars, completions, badgeEffectPending, saveProgressPending,
               saveCompletionsPending, persistVars, sessionVars, lastOutcome,
               openedWith>>

EvalIsLevelUnlocked(levelId) ==
    /\ probe' = [op |-> "isLevelUnlocked", arg |-> levelId,
                 bool |-> isLevelUnlocked(levelId)]
    /\ UNCHANGED <<progress, otherVars>>

EvalIsSectionUnlocked(sectionId) ==
    /\ probe' = [op |-> "isSectionUnlocked", arg |-> sectionId,
                 bool |-> isSectionUnlocked(sectionId)]
    /\ UNCHANGED <<progress, otherVars>>

EvalGetBadges ==
    /\ probe' = [op |-> "getBadges", list |-> getBadges(progress.completedLevels)]
    /\ UNCHANGED <<progress, otherVars>>

\* completeLevel(levelId, score) called twice in a row: two queued updaters.
ApplyCompleteLevelTwice(levelId, score) ==
    /\ progress.totalScore <= MaxScore
    /\ LET mid == completeLevel(progress, levelId, score)
       IN /\ progress' = completeLevel(mid, levelId, score)
          /\ probe' = [op |-> "completeLevel", arg |-> levelId, score |-> score,
                       before |-> progress, mid |-> mid]
    /\ UNCHANGED otherVars

PureNext ==
    \/ \E l \in LevelIds : EvalIsLevelUnlocked(l)
    \/ \E s \in 1..NumSections : EvalIsSectionUnlocked(s)
    \/ EvalGetBadges
    \/ \E l \in LevelIds, d \in ScoreDeltas : ApplyCompleteLevelTwice(l, d)

SpecPure == PureInit /\ [][PureNext]_vars


(***************************************************************************)
(* Properties                                                              *)
(***************************************************************************)
\* Level ids of section s, as a set
SectionLevels(s) == Elems(sections[s].levels)

\* Completed level ids of a record, as a set
Completed(p) == Elems(p.completedLevels)

\* Number of entries of arr equal to x
Occurrences(arr, x) == Cardinality({i \in 1..Len(arr) : arr[i] = x})

\* c[l] || 0 on any counter map
CountIn(c, l) == IF l \in DOMAIN c THEN c[l] ELSE 0

\* A session has just handed its outcome to the Game page.
OutcomeDelivered == lastOutcome # NoOutcome

\* C1: at the Outcome of a session with T questions, passed is true iff the
\* number of questions answered correctly is >= ceil(T/2).
C1_PassIffMajority ==
    OutcomeDelivered =>
        (lastOutcome.passed <=> 2 * lastOutcome.correct >= lastOutcome.total)

\* C2: the score handed to completeLevel is 20 x c for a passed session and
\* 15 x c for a failed one, c the number of correct answers; never above 20 x T.
C2_ScoreDelta ==
    OutcomeDelivered =>
        /\ lastOutcome.score =
              (IF lastOutcome.passed THEN 20 ELSE 15) * lastOutcome.correct
        /\ lastOutcome.score <= 20 * lastOutcome.total

\* C3: from empty defaults, Level 1 (6 questions) played with exactly 4 correct
\* answers ends with passed, scoreDelta 80, totalScore 80, Level 1's counter 1,
\* Level 1 completed and Level 2 unlocked.
C3_EndToEnd ==
    (OutcomeDelivered /\ lastOutcome.levelId = 1 /\ lastOutcome.correct = 4) =>
        /\ lastOutcome.total = 6
        /\ lastOutcome.passed
        /\ lastOutcome.score = 80
        /\ progress.totalScore = 80
        /\ CountIn(completions, 1) = 1
        /\ 1 \in Completed(progress)
        /\ isLevelUnlocked(2)

\* C4: isLevelUnlocked(1) is true for every record; for n > 1,
\* isLevelUnlocked(n) is true iff n - 1 is a member of completedLevels.
C4_SequentialUnlock ==
    probe.op = "isLevelUnlocked" =>
        /\ probe.arg = 1 => probe.bool
        /\ probe.arg > 1 => (probe.bool <=> (probe.arg - 1) \in Completed(progress))

C4_Witness ==
    /\ probe.op = "isLevelUnlocked"
    /\ probe.arg > 1
    /\ probe.bool
    /\ probe.arg \notin Completed(progress)

\* C5: isSectionUnlocked(1) is always true; for s > 1, isSectionUnlocked(s) is
\* true iff every level of section s - 1 is a member of completedLevels.
C5_SectionGating ==
    probe.op = "isSectionUnlocked" =>
        /\ probe.arg = 1 => probe.bool
        /\ probe.arg > 1 =>
              (probe.bool <=> SectionLevels(probe.arg - 1) \subseteq Completed(progress))

C5_Witness ==
    /\ probe.op = "isSectionUnlocked"
    /\ probe.arg > 1
    /\ ~probe.bool
    /\ SectionLevels(probe.arg - 1) \cap Completed(progress) # {}

\* C6: completeLevel(id, d) applied twice in a row leaves id in completedLevels
\* exactly once, adds d to totalScore both times, sets currentLevel to
\* max(currentLevel, id + 1) each time, and removes no completed level.
C6_IdempotentCompletion ==
    probe.op = "completeLevel" =>
        /\ Occurrences(progress.completedLevels, probe.arg) = 1
        /\ Occurrences(probe.mid.completedLevels, probe.arg) = 1
        /\ progress.completedLevels = probe.mid.completedLevels
        /\ Completed(progress) = Completed(probe.before) \cup {probe.arg}
        /\ probe.mid.totalScore = probe.before.totalScore + probe.score
        /\ progress.totalScore = probe.before.totalScore + 2 * probe.score
        /\ probe.mid.currentLevel = Max(probe.before.currentLevel, probe.arg + 1)
        /\ progress.currentLevel = Max(probe.mid.currentLevel, probe.arg + 1)
        /\ progress.badges = probe.before.badges

C6_Witness ==
    /\ probe.op = "completeLevel"
    /\ probe.score > 0
    /\ probe.arg \in Completed(probe.before)
    /\ probe.before.currentLevel > probe.arg + 1

NonDecreasing ==
    /\ progress'.currentLevel >= progress.currentLevel
    /\ progress'.totalScore >= progress.totalScore
    /\ Cardinality(Completed(progress')) >= Cardinality(Completed(progress))
    /\ Len(progress'.completedLevels) >= Len(progress.completedLevels)
    /\ Cardinality(Elems(progress'.badges)) >= Cardinality(Elems(progress.badges))
    /\ Len(progress'.badges) >= Len(progress.badges)
    /\ \A l \in LevelIds : CountIn(completions', l) >= CountIn(completions, l)

\* C7: across every step that is not an explicit reset, currentLevel,
\* totalScore, |completedLevels|, |badges| and every per-level completion
\* counter are non-decreasing.
C7_Monotonicity == [][resetProgress \/ NonDecreasing]_vars

\* A replay of level 1 has delivered its outcome after level 2 was completed,
\* with score, badge and counter above zero.
C7_Witness ==
    /\ OutcomeDelivered
    /\ lastOutcome.levelId = 1
    /\ 2 \in Completed(progress)
    /\ progress.totalScore > 0
    /\ Len(progress.badges) > 0
    /\ CountIn(completions, 1) > 0

PassComputed == ~showCelebration /\ showCelebration'

\* The step that leaves the last graded question: to the celebration screen or
\* back to the levels with an outcome.
OutcomeStep ==
    /\ InSession /\ ~showCelebration
    /\ phase = "questions" /\ isAnswered /\ isLastQuestion
    /\ (showCelebration' \/ lastOutcome' # NoOutcome)

FailDelivered == lastOutcome' # lastOutcome /\ lastOutcome' # NoOutcome /\ ~lastOutcome'.passed

PassDelivered == lastOutcome' # lastOutcome /\ lastOutcome' # NoOutcome /\ lastOutcome'.passed

AllLevelsCompleted == LevelIds \subseteq Completed(progress)

\* C9: once every level of every section is completed, the badges come to
\* contain the grand badge in addition to all section badges (stated at the
\* point where badge derivation has run), and it is never held before that.
C9_GrandBadge ==
    /\ includes(progress.badges, GrandBadge) => AllLevelsCompleted
    /\ (AllLevelsCompleted /\ ~badgeEffectPending) =>
          /\ includes(progress.badges, GrandBadge)
          /\ \A s \in 1..NumSections : includes(progress.badges, sections[s].badge)

\* C10: getBadges(completedLevels) contains a section's badge iff all of the
\* section's level ids are in completedLevels, and each badge at most once.
C10_BadgeDerivation ==
    probe.op = "getBadges" =>
        /\ \A s \in 1..NumSections :
              (sections[s].badge \in Elems(probe.list))
                  <=> (SectionLevels(s) \subseteq Completed(progress))
        /\ \A b \in Elems(probe.list) : Occurrences(probe.list, b) = 1

C10_Witness ==
    /\ probe.op = "getBadges"
    /\ Len(probe.list) = 1
    /\ \E s \in 1..NumSections :
          SectionLevels(s) \cap Completed(progress) # {}
          /\ ~(SectionLevels(s) \subseteq Completed(progress))

\* Badges derived from a record's completedLevels / held by the record, as sets
Derived(p) == Elems(getBadges(p.completedLevels))

Held(p) == Elems(p.badges)

\* The step in which the scheduled badge effect runs
BadgeEffectRuns == badgeEffectPending /\ ~badgeEffectPending'

\* C11: every change to completedLevels schedules badge derivation; a derived
\* badge not yet held is eventually held; a run of the derivation adds exactly
\* the derived badges not yet held, keeps every held badge in place and creates
\* no duplicate; re-running it on an unchanged completedLevels leaves the
\* record unchanged.
C11_BadgesFollowCompletions ==
    /\ [][/\ (progress'.completedLevels # progress.completedLevels)
                => badgeEffectPending'
          /\ BadgeEffectRuns =>
                /\ Held(progress') = Held(progress) \cup Derived(progress)
                /\ SubSeq(progress'.badges, 1, Len(progress.badges)) = progress.badges
                /\ NoDuplicates(progress'.badges)
                /\ progress'.completedLevels = progress.completedLevels
                /\ (Derived(progress) \subseteq Held(progress)) => progress' = progress
                /\ addBadges(progress', getBadges(progress'.completedLevels)) = progress'
         ]_vars
    /\ [](Ready =>
            addBadges(progress, getBadges(progress.completedLevels)) = progress)
    /\ \A s \in 1..NumSections :
          (sections[s].badge \in Derived(progress) \ Held(progress))
             ~> (sections[s].badge \in Held(progress)
                   \/ sections[s].badge \notin Derived(progress))

\* The derivation has run while a badge was already held and added another.
C11_Witness ==
    /\ Ready
    /\ Len(progress.badges) >= 2
    /\ Derived(progress) = Held(progress)

\* C12: after resetProgress, from any state, the progress record equals the
\* empty defaults, and a run of badge derivation on the defaults leaves them;
\* level 1 is then unlocked and level 2 is locked.
C12_ResetToDefaults ==
    [][/\ resetProgress =>
            /\ progress'.completedLevels = <<>>
            /\ progress'.currentLevel = 1
            /\ progress'.totalScore = 0
            /\ progress'.badges = <<>>
            /\ isLevelUnlocked(1)'
            /\ ~isLevelUnlocked(2)'
       /\ (progress = defaultProgress /\ BadgeEffectRuns) =>
            /\ progress' = defaultProgress
            /\ isLevelUnlocked(1)'
            /\ ~isLevelUnlocked(2)'
      ]_vars

\* Outside a session the record is at its defaults although a level has been
\* passed before: a reset has happened and badge derivation has run after it.
C12_Witness ==
    /\ Ready
    /\ view # "game"
    /\ progress = defaultProgress
    /\ \E l \in LevelIds : CountIn(completions, l) > 0
    /\ storage[PROGRESS_STORAGE_KEY] = stringifyProgress(defaultProgress)

\* C13: an explicit reset zeroes every per-level completion counter: after
\* resetProgress, getCompletionCount(l) = 0 for every level l.
C13_ResetZeroesCounters ==
    [][resetProgress => \A l \in LevelIds : getCompletionCount(l)' = 0]_vars

\* A well-formed progress record: the four fields of GameProgress
IsProgressRecord(p) == DOMAIN p = DOMAIN defaultProgress

\* A well-formed counter record: level ids mapped to counts
IsCounts(c) == \A l \in DOMAIN c : l \in LevelIds /\ c[l] \in Nat

\* C14: whatever the persisted keys hold at startup (nothing, unparsable text,
\* parsable text that is no well-formed record), once loading has ended the
\* progress record and the counter record in memory are well-formed (a stored
\* well-formed record or the empty defaults) and no fatal error has occurred.
C14_StartupRecovery ==
    /\ ~crashed
    /\ isLoaded => IsProgressRecord(progress)
    /\ completionsLoaded => IsCounts(completions)

\* The records a restart would load from the stored texts
StoredProgress == loadProgress(storage[PROGRESS_STORAGE_KEY])

StoredCompletions == loadCompletions(storage[COMPLETIONS_STORAGE_KEY])

\* C15: every mutation of the progress record or of the counters schedules its
\* save, the save writes a text that decodes to the record in memory, so at
\* every quiescent point both stored texts decode to the records in memory; a
\* restart there keeps the texts and the load that follows restores exactly
\* those records.
C15_PersistRoundTrip ==
    /\ [](Ready => (StoredProgress = progress /\ StoredCompletions = completions))
    /\ [][/\ (isLoaded /\ isLoaded' /\ ~crashed' /\ progress' # progress)
                => saveProgressPending'
          /\ (completionsLoaded /\ completionsLoaded' /\ completions' # completions)
                => saveCompletionsPending'
          /\ (saveProgressPending /\ ~saveProgressPending') =>
                /\ storage'[PROGRESS_STORAGE_KEY] = stringifyProgress(progress')
                /\ StoredProgress' = progress'
          /\ (saveCompletionsPending /\ ~saveCompletionsPending') =>
                /\ storage'[COMPLETIONS_STORAGE_KEY] = stringifyCompletions(completions')
                /\ StoredCompletions' = completions'
          /\ (Ready /\ ~isLoaded') =>
                /\ storage' = storage
                /\ StoredProgress' = progress
                /\ StoredCompletions' = completions
          /\ (~isLoaded /\ isLoaded' /\ ~crashed') =>
                /\ progress' = StoredProgress
                /\ completions' = StoredCompletions
         ]_vars

\* The page has been restarted after two levels were passed and saved.
C15_Witness ==
    /\ ~isLoaded
    /\ storage[COMPLETIONS_STORAGE_KEY] = ObjectText(<< <<"1", 1>>, <<"2", 1>> >>)
    /\ storage[PROGRESS_STORAGE_KEY].kind = "object"
    /\ StoredProgress.completedLevels = <<1, 2>>
    /\ StoredProgress.totalScore > 35

\* The step that leaves a session which has not handed over its outcome: back
\* to the levels, or the page restarted.
LeavesSession == InSession /\ ~InSession' /\ lastOutcome' = NoOutcome

\* C16: leaving a session before its outcome is delivered, in any phase,
\* records nothing: at the moment of leaving and after it, the progress record
\* and every completion counter (in memory and as persisted) are the same as
\* when the session was opened.
C16_LeaveRecordsNothing ==
    [][LeavesSession =>
          /\ progress = openedWith.progress
          /\ completions = openedWith.completions
          /\ StoredProgress' = openedWith.progress
          /\ StoredCompletions' = openedWith.completions
          /\ isLoaded' => (progress' = progress /\ completions' = completions)
      ]_vars

\* Level l was unlocked in the record the session was opened with.
UnlockedAtOpen(l) == l = 1 \/ (l - 1) \in Completed(openedWith.progress)

\* C17: a locked level cannot be played: no step starts a session for a level
\* that is locked, and completeLevel and incrementCompletion are only invoked
\* for a level that was unlocked when its session was opened.
C17_LockedNotPlayable ==
    [][/\ (~InSession /\ InSession') =>
            /\ isLevelUnlocked(selectedLevel')
            /\ progress' = progress /\ completions' = completions
       /\ InSession => UnlockedAtOpen(selectedLevel)
       /\ (lastOutcome' # lastOutcome /\ lastOutcome' # NoOutcome) =>
            /\ lastOutcome'.levelId = selectedLevel
            /\ UnlockedAtOpen(selectedLevel)
       /\ (completions' # completions) =>
            /\ CountIn(completions', selectedLevel) > CountIn(completions, selectedLevel)
            /\ UnlockedAtOpen(selectedLevel)
      ]_vars

\* A session is being played while another level of the shown section is locked.
C17_Witness ==
    /\ InSession
    /\ phase = "questions"
    /\ \E l \in LevelIds :
          /\ includes(sections[selectedSection].levels, l)
          /\ ~isLevelUnlocked(l)

\* Answering(i): question i is shown and not yet graded
Answering == InSession /\ ~showCelebration /\ phase = "questions" /\ ~isAnswered

\* C18: in Answering(i) with no option selected, no step (a submit included)
\* grades the question: the session stays ungraded at question i with the same
\* correct-count, and no store is mutated; a graded question always has a
\* selected option.
C18_EmptySubmitIsNoOp ==
    /\ [](isAnswered => selectedAnswer # NoAnswer)
    /\ [][(Answering /\ selectedAnswer = NoAnswer) =>
              /\ progress' = progress
              /\ completions' = completions
              /\ storage' = storage
              /\ lastOutcome' = lastOutcome
              /\ InSession' =>
                    /\ Answering'
                    /\ currentQuestionIndex' = currentQuestionIndex
                    /\ correctCount' = correctCount
          ]_vars

\* A later question with a correct answer already counted is shown, nothing
\* selected yet.
C18_Witness ==
    /\ Answering
    /\ selectedAnswer = NoAnswer
    /\ currentQuestionIndex > 0
    /\ correctCount > 0

StaysInSession == InSession /\ InSession'

\* C21: a session runs Learning, then question 0, 1, ... T-1 in catalog order,
\* each answered and then graded once, then the outcome: a session opens in
\* Learning; Learning is left only to the ungraded question 0; the index only
\* ever moves from a graded question i < T-1 to i+1, with the selection cleared,
\* the grading reset and the correct-count unchanged; a graded question stays
\* graded until then; the outcome is only computed from the graded last
\* question.
C21_SessionOrder ==
    [][/\ (~InSession /\ InSession') =>
            /\ phase' = "learning" /\ currentQuestionIndex' = 0
            /\ selectedAnswer' = NoAnswer /\ ~isAnswered'
            /\ correctCount' = 0 /\ ~showCelebration'
       /\ (StaysInSession /\ phase = "learning") =>
            /\ phase' \in {"learning", "questions"}
            /\ currentQuestionIndex' = 0 /\ ~isAnswered'
            /\ selectedAnswer' = NoAnswer /\ correctCount' = 0
       /\ (StaysInSession /\ phase = "questions") =>
            /\ phase' = "questions"
            /\ currentQuestionIndex' \in
                  {currentQuestionIndex, currentQuestionIndex + 1}
            /\ (currentQuestionIndex' = currentQuestionIndex + 1) =>
                  /\ isAnswered /\ ~isLastQuestion /\ ~showCelebration
                  /\ ~isAnswered' /\ selectedAnswer' = NoAnswer
                  /\ correctCount' = correctCount
            /\ (currentQuestionIndex' = currentQuestionIndex /\ isAnswered) =>
                  isAnswered'
       /\ (InSession /\ (PassComputed \/ FailDelivered)) =>
            /\ phase = "questions" /\ isAnswered /\ isLastQuestion
       /\ (InSession /\ PassDelivered) => (showCelebration /\ isLastQuestion)
      ]_vars

\* The last question of a six-question level has been graded.
C21_Witness ==
    /\ InSession /\ phase = "questions"
    /\ totalQuestions = 6 /\ currentQuestionIndex = 5
    /\ isAnswered /\ ~showCelebration

\* The step stays on the same question of the same session.
SameQuestion ==
    /\ StaysInSession /\ phase = "questions" /\ phase' = "questions"
    /\ currentQuestionIndex' = currentQuestionIndex

\* C22: while the question is ungraded the selection may change and nothing is
\* counted; the grading step keeps the option selected last and adds exactly 1
\* to the correct-count if that option is the question's correctAnswer and 0
\* otherwise; once the question is graded, its selection, its grade and the
\* correct-count no longer change.
C22_GradesLastSelection ==
    [][SameQuestion =>
          /\ (~isAnswered /\ ~isAnswered') => correctCount' = correctCount
          /\ (~isAnswered /\ isAnswered') =>
                /\ selectedAnswer # NoAnswer
                /\ selectedAnswer' = selectedAnswer
                /\ correctCount' = correctCount +
                      (IF selectedAnswer =
                            correctAnswerOf(selectedLevel, currentQuestionIndex)
                       THEN 1 ELSE 0)
          /\ isAnswered =>
                /\ isAnswered'
                /\ selectedAnswer' = selectedAnswer
                /\ correctCount' = correctCount
      ]_vars

\* A question graded on a wrong option after an earlier one was graded correct.
C22_Witness ==
    /\ InSession /\ phase = "questions" /\ isAnswered
    /\ selectedAnswer # correctAnswerOf(selectedLevel, currentQuestionIndex)
    /\ currentQuestionIndex = 1 /\ correctCount = 1

\* The counters are those the session was opened with, plus n for its level.
CountedSinceOpen(n) ==
    \A l \in LevelIds :
        CountIn(completions, l) =
            CountIn(openedWith.completions, l)
                + (IF l = selectedLevel THEN n ELSE 0)

C24_CountedImpliesCompleted ==
    (isLoaded /\ completionsLoaded /\ ~InSession) =>
        \A l \in LevelIds :
            CountIn(completions, l) > 0 => l \in Completed(progress)

\* C25: from the empty defaults, the set of completed levels is always a
\* prefix 1..k of the level ids: no level is completed while a lower one is
\* not.
C25_CompletedIsPrefix ==
    \A l \in Completed(progress) : \A k \in 1..l : k \in Completed(progress)

\* The first three levels are completed, two sections deep.
C25_Witness ==
    /\ progress.completedLevels = <<1, 2, 3>>
    /\ 3 \in SectionLevels(2)

\* The highest completed level of a record, 0 when there is none
HighestCompleted(p) ==
    IF Completed(p) = {} THEN 0
    ELSE CHOOSE m \in Completed(p) : \A l \in Completed(p) : l <= m

\* C26: from the empty defaults, currentLevel is 1 + the highest completed
\* level (1 when none is completed); it is the lowest level not completed and
\* that level is unlocked.
C26_CurrentLevelIsNext ==
    /\ progress.currentLevel = 1 + HighestCompleted(progress)
    /\ progress.currentLevel \notin Completed(progress)
    /\ \A l \in 1..(progress.currentLevel - 1) : l \in Completed(progress)
    /\ isLevelUnlocked(progress.currentLevel)

\* Level 1 has been replayed after level 3 was completed: currentLevel stays 4.
C26_Witness ==
    /\ OutcomeDelivered /\ lastOutcome.levelId = 1
    /\ 3 \in Completed(progress)
    /\ progress.currentLevel = 4

\* C27: from the empty defaults, through outcomes, badge derivation and
\* resetProgress in any order, every badge held is the badge of a section all
\* of whose levels are in completedLevels.
C27_BadgesAreEarned ==
    \A i \in 1..Len(progress.badges) :
        \E s \in DOMAIN sections :
            /\ sections[s].badge = progress.badges[i]
            /\ SectionLevels(s) \subseteq Completed(progress)

\* Both section badges are held.
C27_Witness ==
    /\ Len(progress.badges) = 2
    /\ SectionLevels(1) \cup SectionLevels(2) \subseteq Completed(progress)

\* Questions of the session graded so far
GradedSoFar == currentQuestionIndex + (IF isAnswered THEN 1 ELSE 0)

\* C28: in every state of a session with T questions the question index is
\* within 0..T-1 and the running correct-count is at most the number of
\* questions graded so far, hence at most T.
C28_CountWithinGraded ==
    InSession =>
        /\ currentQuestionIndex \in 0..(totalQuestions - 1)
        /\ correctCount \in 0..GradedSoFar
        /\ GradedSoFar <= totalQuestions

\* Every question of a six-question level was graded correct.
C28_Witness ==
    /\ InSession /\ totalQuestions = 6
    /\ currentQuestionIndex = 5 /\ isAnswered
    /\ correctCount = 6

\* The step in which the initial load completes
LoadCompletes == ~isLoaded /\ isLoaded'

\* C29: loading and saving are ordered. A key is only written once its hook
\* has loaded, and nothing but the load changes a store, the view or the
\* storage before isLoaded. The load leaves the storage alone and puts the
\* stored records in memory (a stored well-formed record, not the defaults);
\* while a save is pending the record in memory does not change, and a write
\* stores the record in memory: the first write after startup stores the
\* loaded record.
C29_LoadBeforeSave ==
    [][/\ (storage'[PROGRESS_STORAGE_KEY] # storage[PROGRESS_STORAGE_KEY]) =>
            /\ isLoaded
            /\ storage'[PROGRESS_STORAGE_KEY] = stringifyProgress(progress)
            /\ StoredProgress' = progress
       /\ (storage'[COMPLETIONS_STORAGE_KEY] # storage[COMPLETIONS_STORAGE_KEY]) =>
            /\ completionsLoaded
            /\ storage'[COMPLETIONS_STORAGE_KEY] = stringifyCompletions(completions)
            /\ StoredCompletions' = completions
       /\ (~isLoaded /\ ~isLoaded') =>
            UNCHANGED <<progress, completions, storage, gameVars, sessionVars>>
       /\ LoadCompletes =>
            /\ completionsLoaded'
            /\ storage' = storage
            /\ progress' = StoredProgress
            /\ completions' = StoredCompletions
            /\ IsProgressRecord(StoredProgress) =>
                  (~crashed' /\ saveProgressPending' /\ saveCompletionsPending')
            /\ (storage[PROGRESS_STORAGE_KEY] = stringifyProgress(SampleProgress))
                  => progress' = SampleProgress
       /\ (isLoaded /\ saveProgressPending) => progress' = progress
       /\ (completionsLoaded /\ saveCompletionsPending) =>
            completions' = completions
      ]_vars

\* A stored record and stored counts were loaded and written back unchanged.
C29_Witness ==
    /\ Ready /\ view = "sections" /\ openedWith = NotOpened
    /\ progress = SampleProgress
    /\ storage[PROGRESS_STORAGE_KEY] = stringifyProgress(SampleProgress)
    /\ completions # << >>
    /\ storage[COMPLETIONS_STORAGE_KEY] = stringifyCompletions(completions)

\* The section a level belongs to
SectionOf(l) == CHOOSE s \in DOMAIN sections : l \in SectionLevels(s)

\* C30: from the empty defaults the two unlock rules agree: a section after
\* the first is unlocked exactly when its first level is unlocked, no unlocked
\* level belongs to a locked section, and a session is only ever open on a
\* level of the selected, unlocked section.
C30_UnlockRulesAgree ==
    /\ \A s \in DOMAIN sections :
          s > 1 => (isSectionUnlocked(s) <=> isLevelUnlocked(sections[s].levels[1]))
    /\ \A l \in LevelIds : isLevelUnlocked(l) => isSectionUnlocked(SectionOf(l))
    /\ InSession =>
          /\ selectedSection = SectionOf(selectedLevel)
          /\ isSectionUnlocked(selectedSection)

\* A session is open on the first level of the second section.
C30_Witness ==
    /\ InSession /\ selectedSection = 2
    /\ selectedLevel = sections[2].levels[1]
    /\ isSectionUnlocked(2)

=============================================================================
